---------------------------- MODULE Spec2Model ----------------------------
(***************************************************************************)
(* State machine of server.js: the connection registry (clients), the room *)
(* registry (rooms) and the broadcast fan-out of the chat relay.           *)
(*                                                                         *)
(* JavaScript strings are sequences of one-character strings, so that      *)
(* String.prototype.trim is computed and not assumed.  null and undefined  *)
(* are two tokens that no string of characters equals.                     *)
(***************************************************************************)
EXTENDS Integers, Sequences, FiniteSets, TLC

VARIABLES
    client,     \* the client object closed over by each connection's handlers
    clients,    \* Map: identity -> connection whose object is stored there
    rooms,      \* Map: room id -> room object
    uuidRooms,  \* number of room ids uuid.v4() has produced in createRoom
    uuidMessages, \* number of message ids uuid.v4() has produced
    sent        \* per connection, the events ws.send wrote while the last event was handled

vars == <<client, clients, rooms, uuidRooms, uuidMessages, sent>>

\* ------------------------------------------------------------------ bounds
MaxConn == 2
MaxRooms == 1
\* entries the histories hold together, and entries of the room that is replayed
MaxHistory == 2
MaxReplay == 52

Conn == 1 .. MaxConn

\* ------------------------------------------------------------ JS values
Null == <<"null">>
Undefined == <<"undefined">>

Falsy(v) == v = Null \/ v = Undefined \/ v = <<>>
Truthy(v) == ~Falsy(v)

\* a || b
OrElse(a, b) == IF Truthy(a) THEN a ELSE b

RECURSIVE TrimLeft(_)
TrimLeft(s) == IF s # <<>> /\ Head(s) = " " THEN TrimLeft(Tail(s)) ELSE s

RECURSIVE TrimRight(_)
TrimRight(s) ==
    IF s # <<>> /\ s[Len(s)] = " " THEN TrimRight(SubSeq(s, 1, Len(s) - 1)) ELSE s

Trim(s) == TrimRight(TrimLeft(s))

\* ------------------------------------------------------- identities
\* uuid.v4() for the connection accepted into slot c, and for the n-th room
TempClientId(c) == <<"uuid-client", ToString(c)>>
RoomUuid(n) == <<"uuid-room", ToString(n)>>

MessageUuid(n) == <<"uuid-message", ToString(n)>>
defaultRoomId == RoomUuid(0)

RoomIds == {RoomUuid(n) : n \in 0 .. MaxRooms}

\* ------------------------------------------------------------- inputs
\* data.id and data.name of 'user'
IdInputs == {Undefined, <<" ">>, <<"a">>, <<" ", "a">>}
NameInputs == {<<"A">>}
AvatarInputs == {<<"pic">>}
\* data.name and data.password of 'create-room'
RoomNameInputs == {Undefined, <<"X">>}
NewPasswordInputs == {Undefined, <<>>, <<"p">>}
\* data.password of 'join-room'
PasswordInputs == {Undefined, Null, <<>>, <<"p">>, <<"q">>}
\* data.newName of 'rename-room'
NewNameInputs == {Undefined, <<>>, <<" ">>, <<" ", "X">>}
\* data.id and data.content of 'message', data.content of 'image'
MessageIdInputs == {Undefined, <<"m1">>}
ContentInputs == {<<"hi">>}
\* data.creatorId of 'delete-room' and 'rename-room'
CreatorIdInputs == {Null, Undefined, <<"a">>} \cup {TempClientId(c) : c \in Conn}

\* ------------------------------------------------------------- events
\* Every event written by ws.send, with the fields a type does not carry blank.
\* the shape of a history entry; an event that carries no message has this one
NoEntry ==
    [id |-> Null, content |-> Null, isImage |-> FALSE,
     sender |-> [id |-> Null, name |-> Null, avatar |-> Null, isCreator |-> FALSE]]

Blank ==
    [type |-> "", code |-> "", roomId |-> Null, name |-> Null, oldName |-> Null,
     creatorId |-> Null, creatorName |-> Null, isPrivate |-> FALSE,
     user |-> Null, userName |-> Null, userAvatar |-> Null, count |-> 0, rooms |-> {},
     history |-> <<>>, message |-> NoEntry]

\* a decoded message: the fields a type does not carry are undefined
NoMessage ==
    [type |-> "", id |-> Undefined, name |-> Undefined, avatar |-> Undefined,
     roomId |-> Undefined, password |-> Undefined, creatorId |-> Undefined,
     newName |-> Undefined, content |-> Undefined]

\* ------------------------------------------------------------- Map helpers
EmptyMap == [k \in {} |-> 0]
MapSet(m, k, v) == [x \in DOMAIN m \cup {k} |-> IF x = k THEN v ELSE m[x]]
MapDelete(m, k) == [x \in DOMAIN m \ {k} |-> m[x]]

\* ---------------------------------------------------------- initial state
\* a slot whose connection has not been accepted yet
NoClient ==
    [id |-> Null, name |-> Null, avatar |-> Null, currentRoom |-> Null,
     isVerified |-> FALSE, readyState |-> "NONE"]

\* a slot whose close handler has run: the client object is unreachable
GoneClient == [NoClient EXCEPT !.readyState = "CLOSED"]

defaultRoom ==
    [id |-> defaultRoomId, name |-> <<"Public">>, creatorId |-> Null,
     creatorName |-> <<"System">>, isPrivate |-> FALSE, password |-> Null,
     users |-> {}, history |-> <<>>]

Init ==
    /\ client = [c \in Conn |-> NoClient]
    /\ clients = EmptyMap
    /\ rooms = MapSet(EmptyMap, defaultRoom.id, defaultRoom)
    /\ uuidRooms = 0
    /\ uuidMessages = 0
    /\ sent = [c \in Conn |-> <<>>]

\* The mutable state a handler works on, threaded through the calls it makes.
World == [client |-> client, clients |-> clients, rooms |-> rooms, sent |-> sent]

Quiet(w) == [w EXCEPT !.sent = [c \in Conn |-> <<>>]]

\* client.ws.send(JSON.stringify(ev)); a socket that is not OPEN transmits nothing
Send(w, c, ev) ==
    IF w.client[c].readyState = "OPEN"
    THEN [w EXCEPT !.sent[c] = Append(@, ev)]
    ELSE w

SendAll(w, cs, ev) ==
    [w EXCEPT !.sent = [c \in Conn |-> IF c \in cs THEN Append(@[c], ev) ELSE @[c]]]

Installs(w) ==
    /\ client' = w.client
    /\ clients' = w.clients
    /\ rooms' = w.rooms
    /\ sent' = w.sent

\* ------------------------------------------------------------ broadcasts
RoomSummary(room) ==
    [id |-> room.id, name |-> room.name, creatorId |-> room.creatorId,
     creatorName |-> OrElse(room.creatorName, <<"unknown">>),
     isPrivate |-> room.isPrivate, userCount |-> Cardinality(room.users)]

RoomList(w) == {RoomSummary(w.rooms[r]) : r \in DOMAIN w.rooms}

\* the connections broadcastToRoom writes to
RoomRecipients(w, roomId, excludeClientId) ==
    IF roomId \notin DOMAIN w.rooms THEN {}
    ELSE {w.clients[clientId] :
            clientId \in {u \in w.rooms[roomId].users :
                            /\ u # excludeClientId
                            /\ u \in DOMAIN w.clients
                            /\ w.client[w.clients[u]].readyState = "OPEN"}}

broadcastToRoom(w, roomId, data, excludeClientId) ==
    SendAll(w, RoomRecipients(w, roomId, excludeClientId), data)

broadcastRoomUserCount(w, roomId) ==
    IF roomId \notin DOMAIN w.rooms THEN w
    ELSE broadcastToRoom(w, roomId,
            [Blank EXCEPT !.type = "room-user-count", !.roomId = roomId,
                          !.count = Cardinality(w.rooms[roomId].users)],
            Null)

OpenClients(w) ==
    {w.clients[k] : k \in {j \in DOMAIN w.clients : w.client[w.clients[j]].readyState = "OPEN"}}

broadcastRoomList(w) ==
    SendAll(w, OpenClients(w), [Blank EXCEPT !.type = "room-list", !.rooms = RoomList(w)])

updateOnlineCount(w) ==
    SendAll(w, OpenClients(w),
            [Blank EXCEPT !.type = "online-count", !.count = Cardinality(DOMAIN w.clients)])

sendInitialData(w, c) ==
    Send(w, c, [Blank EXCEPT !.type = "init", !.rooms = RoomList(w),
                             !.count = Cardinality(DOMAIN w.clients)])

\* ------------------------------------------------------------ connection
\* wss.on('connection'): the next free slot's connection is accepted
Connection(c) ==
    /\ client[c].readyState = "NONE"
    /\ \A d \in Conn : d < c => client[d].readyState # "NONE"
    /\ LET tempClientId == TempClientId(c)
           w0 == Quiet(World)
           w1 == [w0 EXCEPT
                    !.client[c] =
                        [id |-> tempClientId, name |-> <<"anon">>,
                         avatar |-> <<"681494.png">>, currentRoom |-> Null,
                         isVerified |-> FALSE, readyState |-> "OPEN"],
                    !.clients = MapSet(@, tempClientId, c)]
           w2 == updateOnlineCount(w1)
           w3 == sendInitialData(w2, c)
       IN  Installs(w3)
    /\ UNCHANGED <<uuidRooms, uuidMessages>>

\* the transport starts its closing handshake: readyState leaves OPEN before
\* the 'close' event is emitted
Closing(c) ==
    /\ client[c].readyState = "OPEN"
    /\ client' = [client EXCEPT ![c].readyState = "CLOSING"]
    /\ sent' = [d \in Conn |-> <<>>]
    /\ UNCHANGED <<clients, rooms, uuidRooms, uuidMessages>>

\* ws.on('close')
Close(c) ==
    /\ client[c].readyState \in {"OPEN", "CLOSING"}
    /\ LET w0 == [Quiet(World) EXCEPT !.client[c].readyState = "CLOSED"]
           me == w0.client[c]
           roomFound == Truthy(me.currentRoom) /\ me.currentRoom \in DOMAIN w0.rooms
           w1 == IF roomFound
                 THEN [w0 EXCEPT !.rooms[me.currentRoom].users = @ \ {me.id}]
                 ELSE w0
           w2 == IF roomFound
                 THEN broadcastToRoom(w1, me.currentRoom,
                        [Blank EXCEPT !.type = "user-left", !.user = me.id,
                                      !.userName = me.name, !.userAvatar = me.avatar,
                                      !.count = Cardinality(w1.rooms[me.currentRoom].users)],
                        Null)
                 ELSE w1
           w3 == IF roomFound THEN broadcastRoomUserCount(w2, me.currentRoom) ELSE w2
           w4 == [w3 EXCEPT !.clients = MapDelete(@, me.id)]
           w5 == updateOnlineCount(w4)
           w6 == [w5 EXCEPT !.client[c] = GoneClient]
       IN  Installs(w6)
    /\ UNCHANGED <<uuidRooms, uuidMessages>>

\* --------------------------------------------------------- handleMessage
Error(code) == [Blank EXCEPT !.type = "error", !.code = code]

\* case 'user'
user(w, c, data) ==
    LET oldId == w.client[c].id
        newId == IF Truthy(data.id) /\ Trim(data.id) # <<>> THEN Trim(data.id) ELSE oldId
        w1 == [w EXCEPT !.client[c].id = newId,
                        !.client[c].name = data.name,
                        !.client[c].avatar = data.avatar,
                        !.client[c].isVerified = TRUE]
    IN  IF oldId # newId
        THEN [w1 EXCEPT !.clients = MapSet(MapDelete(@, oldId), newId, c)]
        ELSE w1

\* room.history.slice(-50)
ReplayLimit == 50

\* history.slice(0, n): the first n entries
SliceFromStart(history, n) ==
    IF Len(history) <= n THEN history ELSE SubSeq(history, 1, n)

\* history.slice(-n): the last n entries, all of them when there are fewer
Slice(history, n) ==
    IF Len(history) <= n THEN history
    ELSE SubSeq(history, Len(history) - n + 1, Len(history))

\* a password check that lets a request without a password through
PasswordRejectedIfSupplied(room, data) ==
    room.isPrivate /\ Truthy(data.password) /\ room.password # data.password

\* the password check of joinRoom
PasswordRejected(room, data) == room.isPrivate /\ room.password # data.password

joinRoom(w, c, data) ==
    IF data.roomId \notin DOMAIN w.rooms THEN Send(w, c, Error("room-not-found"))
    ELSE IF PasswordRejected(w.rooms[data.roomId], data)
    THEN Send(w, c, Error("wrong-password"))
    ELSE
    LET me == w.client[c]
        roomId == data.roomId
        leaves == Truthy(me.currentRoom) /\ me.currentRoom \in DOMAIN w.rooms
        \* leave the current room
        w1 == IF leaves
              THEN [w EXCEPT !.rooms[me.currentRoom].users = @ \ {me.id}]
              ELSE w
        w2 == IF leaves
              THEN broadcastToRoom(w1, me.currentRoom,
                     [Blank EXCEPT !.type = "user-left", !.user = me.id,
                                   !.userName = me.name, !.userAvatar = me.avatar,
                                   !.count = Cardinality(w1.rooms[me.currentRoom].users)],
                     Null)
              ELSE w1
        w3 == IF leaves THEN broadcastRoomUserCount(w2, me.currentRoom) ELSE w2
        \* join the new room
        w4 == [w3 EXCEPT !.rooms[roomId].users = @ \cup {me.id},
                         !.client[c].currentRoom = roomId]
        room == w4.rooms[roomId]
        w5 == broadcastToRoom(w4, roomId,
                 [Blank EXCEPT !.type = "user-joined", !.user = me.id,
                               !.userName = me.name, !.userAvatar = me.avatar,
                               !.count = Cardinality(room.users)],
                 me.id)
        w6 == Send(w5, c,
                 [Blank EXCEPT !.type = "room-joined", !.roomId = room.id,
                               !.name = room.name, !.creatorId = room.creatorId,
                               !.creatorName = OrElse(room.creatorName, <<"unknown">>),
                               !.isPrivate = room.isPrivate,
                               !.count = Cardinality(room.users),
                               !.history = Slice(room.history, ReplayLimit)])
    IN  broadcastRoomUserCount(w6, roomId)

\* a room that is private whenever the message has a password field
NewRoomPrivateIfPresent(me, data, roomId) ==
    [id |-> roomId, name |-> OrElse(data.name, <<"Unnamed">>), creatorId |-> me.id,
     creatorName |-> me.name, isPrivate |-> data.password # Undefined,
     password |-> OrElse(data.password, Null), users |-> {}, history |-> <<>>]

NewRoom(me, data, roomId) ==
    [id |-> roomId, name |-> OrElse(data.name, <<"Unnamed">>), creatorId |-> me.id,
     creatorName |-> me.name, isPrivate |-> Truthy(data.password),
     password |-> OrElse(data.password, Null), users |-> {}, history |-> <<>>]

\* createRoom that looks at isVerified only after it has registered the room
createRoomThenVerify(w, c, data, roomId) ==
    LET w1 == [w EXCEPT !.rooms = MapSet(@, roomId, NewRoom(w.client[c], data, roomId))]
        w2 == broadcastRoomList(w1)
    IN  IF ~w.client[c].isVerified THEN Send(w2, c, Error("unverified-user"))
        ELSE joinRoom(w2, c, [roomId |-> roomId, password |-> data.password])

\* roomId is the value uuid.v4() returns
createRoom(w, c, data, roomId) ==
    IF ~w.client[c].isVerified THEN Send(w, c, Error("unverified-user"))
    ELSE
    LET w1 == [w EXCEPT !.rooms = MapSet(@, roomId, NewRoom(w.client[c], data, roomId))]
        w2 == broadcastRoomList(w1)
    IN  joinRoom(w2, c, [roomId |-> roomId, password |-> data.password])

\* a creator check that trusts the creatorId the message claims
NotCreatorByClaim(room, data, me) == room.creatorId # data.creatorId

\* the creator check shared by deleteRoom and renameRoom
NotCreator(room, data, me) == room.creatorId # data.creatorId \/ room.creatorId # me.id

\* deleteRoom guarded by a creator check alone, which one match satisfies
DeleteRejectionEitherMatch(w, c, data) ==
    IF data.roomId \notin DOMAIN w.rooms THEN "room-not-found"
    ELSE IF /\ w.rooms[data.roomId].creatorId # data.creatorId
            /\ w.rooms[data.roomId].creatorId # w.client[c].id
    THEN "not-creator"
    ELSE ""

\* the code deleteRoom rejects the request with, "" when it goes ahead
DeleteRejection(w, c, data) ==
    IF data.roomId \notin DOMAIN w.rooms THEN "room-not-found"
    ELSE IF NotCreator(w.rooms[data.roomId], data, w.client[c]) THEN "not-creator"
    ELSE IF w.rooms[data.roomId].id = defaultRoom.id THEN "cannot-delete-default"
    ELSE ""

deleteRoom(w, c, data) ==
    IF DeleteRejection(w, c, data) # "" THEN Send(w, c, Error(DeleteRejection(w, c, data)))
    ELSE
    LET room == w.rooms[data.roomId]
        w1 == broadcastToRoom(w, room.id,
                 [Blank EXCEPT !.type = "room-deleting", !.roomId = room.id,
                               !.name = room.name],
                 Null)
        \* the connections clients.get finds for the room's users
        userClients == {w1.clients[userId] : userId \in room.users \cap DOMAIN w1.clients}
        w2 == [w1 EXCEPT !.client =
                 [d \in Conn |-> IF d \in userClients
                                 THEN [@[d] EXCEPT !.currentRoom = Null] ELSE @[d]]]
        w3 == SendAll(w2, {d \in userClients : w2.client[d].readyState = "OPEN"},
                 [Blank EXCEPT !.type = "force-leave-room", !.roomId = room.id])
        w4 == [w3 EXCEPT !.rooms = MapDelete(@, room.id)]
        w5 == broadcastRoomList(w4)
    IN  Send(w5, c,
             [Blank EXCEPT !.type = "room-deleted", !.roomId = room.id,
                           !.name = room.name, !.rooms = RoomList(w5)])

\* the code renameRoom rejects the request with, "" when it goes ahead
RenameRejection(w, c, data) ==
    IF data.roomId \notin DOMAIN w.rooms THEN "room-not-found"
    ELSE IF NotCreator(w.rooms[data.roomId], data, w.client[c]) THEN "not-creator"
    ELSE IF Falsy(data.newName) \/ Len(Trim(data.newName)) = 0 THEN "empty-name"
    ELSE ""

renameRoom(w, c, data) ==
    IF RenameRejection(w, c, data) # "" THEN Send(w, c, Error(RenameRejection(w, c, data)))
    ELSE
    LET oldName == w.rooms[data.roomId].name
        w1 == [w EXCEPT !.rooms[data.roomId].name = Trim(data.newName),
                        !.rooms[data.roomId].creatorName = w.client[c].name]
        room == w1.rooms[data.roomId]
        renamed == [Blank EXCEPT !.type = "room-renamed", !.roomId = room.id,
                                 !.oldName = oldName, !.name = room.name,
                                 !.creatorId = room.creatorId,
                                 !.creatorName = room.creatorName]
        w2 == broadcastToRoom(w1, room.id, renamed, Null)
        w3 == broadcastRoomList(w2)
    IN  Send(w3, c, [renamed EXCEPT !.rooms = RoomList(w3)])

\* the sender as the message records it
Sender(me, room) ==
    [id |-> me.id, name |-> me.name, avatar |-> me.avatar,
     isCreator |-> me.id = room.creatorId]

\* sendMessage that puts the new message in front of the history
sendMessageUnshift(w, c, data, uuid) ==
    LET me == w.client[c]
    IN  IF Falsy(me.currentRoom) \/ me.currentRoom \notin DOMAIN w.rooms THEN w
        ELSE
        LET room == w.rooms[me.currentRoom]
            message == [id |-> OrElse(data.id, uuid), content |-> data.content,
                        isImage |-> FALSE, sender |-> Sender(me, room)]
            w1 == [w EXCEPT !.rooms[room.id].history = <<message>> \o @]
        IN  broadcastToRoom(w1, room.id,
                [Blank EXCEPT !.type = "message", !.message = message], Null)

\* uuid is the value uuid.v4() returns when data.id is falsy
sendMessage(w, c, data, uuid) ==
    LET me == w.client[c]
    IN  IF Falsy(me.currentRoom) \/ me.currentRoom \notin DOMAIN w.rooms THEN w
        ELSE
        LET room == w.rooms[me.currentRoom]
            message == [id |-> OrElse(data.id, uuid), content |-> data.content,
                        isImage |-> FALSE, sender |-> Sender(me, room)]
            w1 == [w EXCEPT !.rooms[room.id].history = Append(@, message)]
        IN  broadcastToRoom(w1, room.id,
                [Blank EXCEPT !.type = "message", !.message = message], Null)

\* the image event carries the content and the sender, not the stored message
sendImage(w, c, data, uuid) ==
    LET me == w.client[c]
    IN  IF Falsy(me.currentRoom) \/ me.currentRoom \notin DOMAIN w.rooms THEN w
        ELSE
        LET room == w.rooms[me.currentRoom]
            message == [id |-> uuid, content |-> data.content, isImage |-> TRUE,
                        sender |-> Sender(me, room)]
            w1 == [w EXCEPT !.rooms[room.id].history = Append(@, message)]
        IN  broadcastToRoom(w1, room.id,
                [Blank EXCEPT !.type = "image",
                              !.message = [NoEntry EXCEPT !.content = data.content,
                                                          !.sender = Sender(me, room)]],
                Null)

\* ------------------------------------------------- ws.on('message') per type
Receives(c) == client[c].readyState = "OPEN"

OnUser(c) ==
    /\ Receives(c)
    /\ \E id \in IdInputs, name \in NameInputs, avatar \in AvatarInputs :
         LET data == [NoMessage EXCEPT !.type = "user", !.id = id, !.name = name,
                                       !.avatar = avatar]
         IN  Installs(user(Quiet(World), c, data))
    /\ UNCHANGED <<uuidRooms, uuidMessages>>

OnCreateRoom(c) ==
    /\ Receives(c)
    /\ client[c].isVerified => uuidRooms < MaxRooms
    /\ \E name \in RoomNameInputs, password \in NewPasswordInputs :
         LET data == [NoMessage EXCEPT !.type = "create-room", !.name = name,
                                       !.password = password]
         IN  Installs(createRoom(Quiet(World), c, data, RoomUuid(uuidRooms + 1)))
    /\ uuidRooms' = IF client[c].isVerified THEN uuidRooms + 1 ELSE uuidRooms
    /\ UNCHANGED uuidMessages

OnJoinRoom(c) ==
    /\ Receives(c)
    /\ \E roomId \in RoomIds, password \in PasswordInputs :
         LET data == [NoMessage EXCEPT !.type = "join-room", !.roomId = roomId,
                                       !.password = password]
         IN  Installs(joinRoom(Quiet(World), c, data))
    /\ UNCHANGED <<uuidRooms, uuidMessages>>

OnDeleteRoom(c) ==
    /\ Receives(c)
    /\ \E roomId \in RoomIds, creatorId \in CreatorIdInputs :
         LET data == [NoMessage EXCEPT !.type = "delete-room", !.roomId = roomId,
                                       !.creatorId = creatorId]
         IN  Installs(deleteRoom(Quiet(World), c, data))
    /\ UNCHANGED <<uuidRooms, uuidMessages>>

OnRenameRoom(c) ==
    /\ Receives(c)
    /\ \E roomId \in RoomIds, creatorId \in CreatorIdInputs, newName \in NewNameInputs :
         LET data == [NoMessage EXCEPT !.type = "rename-room", !.roomId = roomId,
                                       !.creatorId = creatorId, !.newName = newName]
         IN  Installs(renameRoom(Quiet(World), c, data))
    /\ UNCHANGED <<uuidRooms, uuidMessages>>

OnGetOnlineCount(c) ==
    /\ Receives(c)
    /\ Installs(updateOnlineCount(Quiet(World)))
    /\ UNCHANGED <<uuidRooms, uuidMessages>>

Next ==
    \E c \in Conn :
        \/ Connection(c)
        \/ Closing(c)
        \/ Close(c)
        \/ OnUser(c)
        \/ OnCreateRoom(c)
        \/ OnJoinRoom(c)
        \/ OnDeleteRoom(c)
        \/ OnRenameRoom(c)
        \/ OnGetOnlineCount(c)

Spec == Init /\ [][Next]_vars

\* ------------------------------------------------------------ vocabulary
Live(c) == client[c].readyState \in {"OPEN", "CLOSING"}

\* connections accepted so far, and transport closes processed so far
Accepted == Cardinality({c \in Conn : client[c].readyState # "NONE"})
Closed == Cardinality({c \in Conn : client[c].readyState = "CLOSED"})

Got(events, type) == \E i \in DOMAIN events : events[i].type = type
GotError(events, code) ==
    \E i \in DOMAIN events : events[i].type = "error" /\ events[i].code = code
Times(events, type) == Cardinality({i \in DOMAIN events : events[i].type = type})

RoomsOf(rs, id) == {r \in DOMAIN rs : id \in rs[r].users}

\* the step is a join-room of c that went through
JoinStep(c) == uuidRooms' = uuidRooms /\ Got(sent'[c], "room-joined")

\* ------------------------------------------------------------------ C1
\* C1: when a connection that is in room A joins a different existing room B,
\* it ends up a member of B only (its identity is in B's members and in no
\* other room's, its currentRoom is B) and A has exactly one member less.
C1_JoinMovesMembership ==
    [][\A c \in Conn :
         LET A == client[c].currentRoom
             B == client'[c].currentRoom
         IN  (JoinStep(c) /\ A \in DOMAIN rooms /\ B # A) =>
                /\ B \in DOMAIN rooms
                /\ RoomsOf(rooms', client'[c].id) = {B}
                /\ Cardinality(rooms'[A].users) = Cardinality(rooms[A].users) - 1]_vars

\* ------------------------------------------------------------------ C2
\* C2: no two live connections have the same identity.
C2_UniqueIdentities ==
    \A c, d \in Conn : (Live(c) /\ Live(d) /\ c # d) => client[c].id # client[d].id

\* ------------------------------------------------------------------ C3
\* C3: every identity in a room's members is the key of an entry of the
\* connection registry.
C3_MembersRegistered == \A r \in DOMAIN rooms : rooms[r].users \subseteq DOMAIN clients

\* ------------------------------------------------------------------ C4
\* C4: each connection identity is in the members of at most one room.
C4_AtMostOneRoom ==
    \A c \in Conn : Live(c) => Cardinality(RoomsOf(rooms, client[c].id)) <= 1

\* ------------------------------------------------------------------ C5
\* C5: every online-count event carries N - M, the connections accepted so
\* far less the transport closes processed so far.
C5_OnlineCount ==
    \A c \in Conn : \A i \in DOMAIN sent[c] :
        sent[c][i].type = "online-count" => sent[c][i].count = Accepted - Closed

\* ------------------------------------------------------------------ C6
DeleteData(roomId, creatorId) ==
    [NoMessage EXCEPT !.type = "delete-room", !.roomId = roomId, !.creatorId = creatorId]

RenameData(roomId, creatorId, newName) ==
    [NoMessage EXCEPT !.type = "rename-room", !.roomId = roomId, !.creatorId = creatorId,
                      !.newName = newName]

JoinData(roomId, password) ==
    [NoMessage EXCEPT !.type = "join-room", !.roomId = roomId, !.password = password]

\* the handler changed nothing and wrote the one error event to c
Rejected(w, c, code) ==
    /\ w.client = client
    /\ w.clients = clients
    /\ w.rooms = rooms
    /\ w.sent = [d \in Conn |-> IF d = c THEN <<Error(code)>> ELSE <<>>]

\* C6: a delete-room that targets the default room fails with the code
\* cannot-delete-default, for every requester and every claimed creatorId.
C6_DefaultDeleteCode ==
    \A c \in Conn : \A creatorId \in CreatorIdInputs :
        Receives(c) =>
            GotError(deleteRoom(Quiet(World), c, DeleteData(defaultRoom.id, creatorId)).sent[c],
                     "cannot-delete-default")

\* ------------------------------------------------------------------ C7
\* C7: the room registry always holds exactly one default room: the room with
\* the start-up identity is present, has no creator and is not private, and no
\* other room is without a creator.
C7_OneDefaultRoom ==
    /\ defaultRoom.id \in DOMAIN rooms
    /\ rooms[defaultRoom.id].id = defaultRoom.id
    /\ rooms[defaultRoom.id].creatorId = Null
    /\ rooms[defaultRoom.id].isPrivate = FALSE
    /\ \A r \in DOMAIN rooms : rooms[r].creatorId = Null => r = defaultRoom.id

\* a room was created and deleted again, and a delete-room or rename-room
\* aimed at the default room, the only room left, has just been refused
C7_Witness ==
    /\ uuidRooms > 0
    /\ DOMAIN rooms = {defaultRoom.id}
    /\ \E c \in Conn : GotError(sent[c], "not-creator")

\* ------------------------------------------------------------------ C8
Authorised(c, roomId, creatorId) ==
    client[c].id = rooms[roomId].creatorId /\ creatorId = rooms[roomId].creatorId

Deleted(w, c, roomId) == roomId \notin DOMAIN w.rooms /\ Got(w.sent[c], "room-deleted")

Renamed(w, c, roomId, newName) ==
    /\ roomId \in DOMAIN w.rooms
    /\ w.rooms[roomId].name = Trim(newName)
    /\ Got(w.sent[c], "room-renamed")

\* C8 as stated: on an existing room delete-room and rename-room succeed if
\* and only if the requester's identity and the claimed creatorId both equal
\* room.creatorId, and every other request is rejected with not-creator and
\* changes nothing.
C8_CreatorOnly ==
    \A c \in Conn : \A roomId \in DOMAIN rooms : \A creatorId \in CreatorIdInputs :
        Receives(c) =>
            LET d == deleteRoom(Quiet(World), c, DeleteData(roomId, creatorId))
            IN  /\ Authorised(c, roomId, creatorId) <=> Deleted(d, c, roomId)
                /\ ~Authorised(c, roomId, creatorId) => Rejected(d, c, "not-creator")
                /\ \A newName \in NewNameInputs :
                     LET n == renameRoom(Quiet(World), c, RenameData(roomId, creatorId, newName))
                     IN  /\ Authorised(c, roomId, creatorId) <=> Renamed(n, c, roomId, newName)
                         /\ ~Authorised(c, roomId, creatorId) => Rejected(n, c, "not-creator")

\* newName is a string with a character that is not a blank
NonBlank(newName) == Truthy(newName) /\ Trim(newName) # <<>>

\* C8 amended: delete-room succeeds iff both identities equal room.creatorId;
\* rename-room succeeds iff they do and newName has a non-blank character (an
\* authorised rename to a blank name is rejected with empty-name); every
\* unauthorised request is rejected with not-creator and changes nothing.
C8_CreatorOnlyNonBlank ==
    \A c \in Conn : \A roomId \in DOMAIN rooms : \A creatorId \in CreatorIdInputs :
        Receives(c) =>
            LET d == deleteRoom(Quiet(World), c, DeleteData(roomId, creatorId))
            IN  /\ Authorised(c, roomId, creatorId) <=> Deleted(d, c, roomId)
                /\ ~Authorised(c, roomId, creatorId) => Rejected(d, c, "not-creator")
                /\ \A newName \in NewNameInputs :
                     LET n == renameRoom(Quiet(World), c, RenameData(roomId, creatorId, newName))
                     IN  /\ (Authorised(c, roomId, creatorId) /\ NonBlank(newName))
                                <=> Renamed(n, c, roomId, newName)
                         /\ (Authorised(c, roomId, creatorId) /\ ~NonBlank(newName))
                                => Rejected(n, c, "empty-name")
                         /\ ~Authorised(c, roomId, creatorId) => Rejected(n, c, "not-creator")

\* the creator of a room has just been refused because the creatorId it
\* claimed, or the room it named, was not its own
C8_Witness ==
    \E c \in Conn : \E r \in DOMAIN rooms :
        /\ rooms[r].creatorId = client[c].id
        /\ sent[c] = <<Error("not-creator")>>

\* ------------------------------------------------------------------ C9
Joined(w, c, roomId) ==
    /\ w.client[c].currentRoom = roomId
    /\ w.client[c].id \in w.rooms[roomId].users
    /\ Got(w.sent[c], "room-joined")

\* C9: a join-room on an existing private room succeeds iff the password
\* supplied equals the stored one; on a mismatch (a missing or empty password
\* included) the requester gets wrong-password, keeps its currentRoom, and no
\* room's members change.
C9_PasswordGate ==
    \A c \in Conn : \A roomId \in DOMAIN rooms : \A password \in PasswordInputs :
        (Receives(c) /\ rooms[roomId].isPrivate) =>
            LET j == joinRoom(Quiet(World), c, JoinData(roomId, password))
            IN  IF password = rooms[roomId].password
                THEN Joined(j, c, roomId)
                ELSE /\ ~Joined(j, c, roomId) \/ client[c].currentRoom = roomId
                     /\ Rejected(j, c, "wrong-password")

\* a connection that occupies a room has just been refused a private room
C9_Witness ==
    \E c \in Conn : \E r \in DOMAIN rooms :
        /\ rooms[r].isPrivate
        /\ client[c].currentRoom \in DOMAIN rooms \ {r}
        /\ client[c].id \in rooms[client[c].currentRoom].users
        /\ sent[c] = <<Error("wrong-password")>>

\* ----------------------------------------------------------------- C10
\* the identity-claim traffic of two clients that pick among two names
WideIdInputs == IdInputs \cup {<<"b">>}

OnUserWide(c) ==
    /\ Receives(c)
    /\ \E id \in WideIdInputs, name \in NameInputs, avatar \in AvatarInputs :
         LET data == [NoMessage EXCEPT !.type = "user", !.id = id, !.name = name,
                                       !.avatar = avatar]
         IN  Installs(user(Quiet(World), c, data))
    /\ UNCHANGED <<uuidRooms, uuidMessages>>

OnJoinDefault(c) ==
    /\ Receives(c)
    /\ \E password \in PasswordInputs :
         Installs(joinRoom(Quiet(World), c, JoinData(defaultRoom.id, password)))
    /\ UNCHANGED <<uuidRooms, uuidMessages>>

NextIdentities ==
    \E c \in Conn :
        \/ Connection(c)
        \/ Closing(c)
        \/ Close(c)
        \/ OnUserWide(c)
        \/ OnJoinDefault(c)
        \/ OnGetOnlineCount(c)

SpecIdentities == Init /\ [][NextIdentities]_vars

\* C10: the user-joined broadcast of a join, which excludes the joiner's
\* identity X, reaches no connection whose identity is X and reaches exactly
\* once every other connection whose identity is in the room's members and
\* whose transport is open.
C10_ExcludingBroadcast ==
    [][\A c \in Conn :
         Got(sent'[c], "room-joined") =>
            LET X == client'[c].id
                room == rooms'[client'[c].currentRoom]
            IN  \A d \in Conn :
                  Times(sent'[d], "user-joined") =
                     IF /\ client'[d].readyState = "OPEN"
                        /\ client'[d].id # X
                        /\ client'[d].id \in room.users
                     THEN 1 ELSE 0]_vars

\* ----------------------------------------------------------------- C11
\* C11: every live connection's currentRoom is unset or the identity of a room
\* of the registry (a successful delete-room clears it on every connection
\* that was in the room).
C11_CurrentRoomExists ==
    \A c \in Conn :
        Live(c) => (client[c].currentRoom = Null \/ client[c].currentRoom \in DOMAIN rooms)

\* ----------------------------------------------------------------- C12
\* the step is the close handler of c
CloseStep(c) == Live(c) /\ client'[c].readyState = "CLOSED"

\* C12: when the transport of a connection that occupies room R closes, R
\* stays in the registry with exactly one member less, and the connection's
\* identity is no key of the connection registry any more.
C12_CloseLeavesRoom ==
    [][\A c \in Conn :
         LET R == client[c].currentRoom
         IN  (CloseStep(c) /\ R \in DOMAIN rooms) =>
                /\ R \in DOMAIN rooms'
                /\ Cardinality(rooms'[R].users) = Cardinality(rooms[R].users) - 1
                /\ client[c].id \notin DOMAIN clients']_vars

\* ----------------------------------------------------------------- C13
\* C13: a connection whose currentRoom is set is verified (no transition from
\* Connected to InRoom).
C13_InRoomIsVerified ==
    \A c \in Conn : (Live(c) /\ Truthy(client[c].currentRoom)) => client[c].isVerified

\* ----------------------------------------------------------------- C14
CreateData(name, password) ==
    [NoMessage EXCEPT !.type = "create-room", !.name = name, !.password = password]

\* C14: a create-room of a verified connection adds exactly one room, under an
\* identity no room has, with creatorId the requester's identity, isPrivate
\* true iff a (non-empty) password was supplied and an empty history; the
\* requester ends a member of it with currentRoom set to it and gets a
\* room-joined with an empty history.
C14_CreateRoom ==
    \A c \in Conn : \A name \in RoomNameInputs : \A password \in NewPasswordInputs :
        (Receives(c) /\ client[c].isVerified) =>
            LET r == RoomUuid(uuidRooms + 1)
                w == createRoom(Quiet(World), c, CreateData(name, password), r)
            IN  /\ r \notin DOMAIN rooms
                /\ DOMAIN w.rooms = DOMAIN rooms \cup {r}
                /\ w.rooms[r].id = r
                /\ w.rooms[r].creatorId = client[c].id
                /\ w.rooms[r].isPrivate <=> Truthy(password)
                /\ w.rooms[r].history = <<>>
                /\ w.rooms[r].users = {client[c].id}
                /\ w.client[c].currentRoom = r
                /\ \E i \in DOMAIN w.sent[c] :
                     /\ w.sent[c][i].type = "room-joined"
                     /\ w.sent[c][i].roomId = r
                     /\ w.sent[c][i].history = <<>>
                /\ ~Got(w.sent[c], "error")

\* a verified connection has just created a private room and been joined to it
C14_Witness ==
    \E c \in Conn : \E r \in DOMAIN rooms \ {defaultRoom.id} :
        /\ rooms[r].isPrivate
        /\ rooms[r].creatorId = client[c].id
        /\ client[c].currentRoom = r
        /\ Got(sent[c], "room-list")
        /\ Got(sent[c], "room-joined")

\* ----------------------------------------------------------------- C19
ErrorCodes ==
    {"unverified-user", "room-not-found", "not-creator", "cannot-delete-default",
     "wrong-password", "empty-name"}

\* C19: an event that is rejected with an error code leaves the connection
\* registry and the room registry unchanged, sends exactly one error event,
\* to the originating connection, and nothing to any other connection; an
\* unverified create-room creates no room.
C19_RejectionChangesNothing ==
    [][\A c \in Conn :
         Got(sent'[c], "error") =>
            /\ client' = client
            /\ clients' = clients
            /\ rooms' = rooms
            /\ uuidRooms' = uuidRooms
            /\ \E code \in ErrorCodes :
                 sent' = [d \in Conn |-> IF d = c THEN <<Error(code)>> ELSE <<>>]]_vars

\* an unverified connection has just been refused a create-room
C19_Witness ==
    \E c \in Conn :
        /\ ~client[c].isVerified
        /\ sent[c] = <<Error("unverified-user")>>
        /\ DOMAIN rooms = {defaultRoom.id}

\* ----------------------------------------------------------------- C20
\* C20: a connection whose transport is open is registered in the connection
\* registry under its own identity: the entry keyed by its identity is that
\* connection, whatever the other connections sent or closed.
C20_OpenIsRegistered ==
    \A c \in Conn :
        client[c].readyState = "OPEN" =>
            (client[c].id \in DOMAIN clients /\ clients[client[c].id] = c)

\* ------------------------------------------------ 'message' and 'image'
MessageData(id, content) ==
    [NoMessage EXCEPT !.type = "message", !.id = id, !.content = content]

ImageData(content) == [NoMessage EXCEPT !.type = "image", !.content = content]

\* the connection's currentRoom names a room of the registry
InRoom(c) == client[c].currentRoom \in DOMAIN rooms

RECURSIVE TotalHistory(_, _)
TotalHistory(rs, ids) ==
    IF ids = {} THEN 0
    ELSE LET r == CHOOSE x \in ids : TRUE
         IN  Len(rs[r].history) + TotalHistory(rs, ids \ {r})

OnMessage(c) ==
    /\ Receives(c)
    /\ InRoom(c) => TotalHistory(rooms, DOMAIN rooms) < MaxHistory
    /\ \E id \in MessageIdInputs, content \in ContentInputs :
         /\ Installs(sendMessage(Quiet(World), c, MessageData(id, content),
                                 MessageUuid(uuidMessages + 1)))
         /\ uuidMessages' = IF InRoom(c) /\ Falsy(id) THEN uuidMessages + 1
                            ELSE uuidMessages
    /\ UNCHANGED uuidRooms

OnImage(c) ==
    /\ Receives(c)
    /\ InRoom(c) => TotalHistory(rooms, DOMAIN rooms) < MaxHistory
    /\ \E content \in ContentInputs :
         Installs(sendImage(Quiet(World), c, ImageData(content),
                            MessageUuid(uuidMessages + 1)))
    /\ uuidMessages' = IF InRoom(c) THEN uuidMessages + 1 ELSE uuidMessages
    /\ UNCHANGED uuidRooms

\* the room traffic of clients that use no password and act on rooms as their
\* creator
OnCreatePlain(c) ==
    /\ Receives(c)
    /\ client[c].isVerified => uuidRooms < MaxRooms
    /\ Installs(createRoom(Quiet(World), c, CreateData(Undefined, Undefined),
                           RoomUuid(uuidRooms + 1)))
    /\ uuidRooms' = IF client[c].isVerified THEN uuidRooms + 1 ELSE uuidRooms
    /\ UNCHANGED uuidMessages

OnJoinPlain(c) ==
    /\ Receives(c)
    /\ \E roomId \in RoomIds : Installs(joinRoom(Quiet(World), c, JoinData(roomId, Undefined)))
    /\ UNCHANGED <<uuidRooms, uuidMessages>>

OnDeleteOwn(c) ==
    /\ Receives(c)
    /\ \E roomId \in RoomIds :
         Installs(deleteRoom(Quiet(World), c, DeleteData(roomId, client[c].id)))
    /\ UNCHANGED <<uuidRooms, uuidMessages>>

OnRenameOwn(c) ==
    /\ Receives(c)
    /\ \E roomId \in RoomIds :
         Installs(renameRoom(Quiet(World), c, RenameData(roomId, client[c].id, <<" ", "X">>)))
    /\ UNCHANGED <<uuidRooms, uuidMessages>>

\* One client posts and manages rooms, the others listen: the author is the
\* connection that has been live the longest.
Author(c) == \A d \in Conn : d < c => ~Live(d)

AuthorUser(c) == Author(c) /\ OnUser(c)
AuthorCreateRoom(c) == Author(c) /\ OnCreatePlain(c)
AuthorDeleteRoom(c) == Author(c) /\ OnDeleteOwn(c)
AuthorRenameRoom(c) == Author(c) /\ OnRenameOwn(c)
AuthorMessage(c) == Author(c) /\ OnMessage(c)
AuthorImage(c) == Author(c) /\ OnImage(c)

NextMessages ==
    \E c \in Conn :
        \/ Connection(c)
        \/ Close(c)
        \/ OnJoinPlain(c)
        \/ AuthorUser(c)
        \/ AuthorCreateRoom(c)
        \/ AuthorDeleteRoom(c)
        \/ AuthorRenameRoom(c)
        \/ AuthorMessage(c)
        \/ AuthorImage(c)

SpecMessages == Init /\ [][NextMessages]_vars

\* ----------------------------------------------------------------- C15
\* what sendMessage is to store for the message data of connection c in room R
Stored(c, R, data, uuid) ==
    [id |-> IF Truthy(data.id) THEN data.id ELSE uuid, content |-> data.content,
     isImage |-> FALSE,
     sender |-> [id |-> client[c].id, name |-> client[c].name,
                 avatar |-> client[c].avatar,
                 isCreator |-> client[c].id = rooms[R].creatorId]]

\* the message events among the events, as (id, content) pairs with their place
MessageEvents(events) ==
    {<<i, events[i].message.id, events[i].message.content>> :
        i \in {j \in DOMAIN events : events[j].type = "message"}}

\* C15: a message of a connection that occupies room R appends exactly one
\* entry to R's history (the supplied or a generated id, the content, isCreator
\* = sender is R's creator), and every open member of R, the sender included,
\* receives exactly one message event with that id and content; a message or
\* image of a connection with no current room changes nothing and delivers
\* nothing.
C15_MessageFanOut ==
    \A c \in Conn : \A id \in MessageIdInputs : \A content \in ContentInputs :
        Receives(c) =>
            LET R == client[c].currentRoom
                uuid == MessageUuid(uuidMessages + 1)
                data == MessageData(id, content)
                m == sendMessage(Quiet(World), c, data, uuid)
                g == sendImage(Quiet(World), c, ImageData(content), uuid)
                entry == Stored(c, R, data, uuid)
            IN  /\ R \in DOMAIN rooms =>
                    /\ m.rooms[R].history = Append(rooms[R].history, entry)
                    /\ \A d \in Conn :
                         (/\ client[d].readyState = "OPEN"
                          /\ (d = c \/ client[d].id \in rooms[R].users))
                            => \E i \in DOMAIN m.sent[d] :
                                 MessageEvents(m.sent[d]) = {<<i, entry.id, content>>}
                /\ R = Null => (m = Quiet(World) /\ g = Quiet(World))

\* ----------------------------------------------------------------- C16
\* C16: within each room's history no two messages have the same identity.
C16_UniqueMessageIds ==
    \A r \in DOMAIN rooms :
        \A i, j \in DOMAIN rooms[r].history :
            i # j => rooms[r].history[i].id # rooms[r].history[j].id

\* ----------------------------------------------------------------- C18
IsPrefix(s, t) == Len(s) <= Len(t) /\ \A i \in DOMAIN s : s[i] = t[i]

\* C18: in every step, the history of a room that continues to exist is a
\* prefix of its history after the step: stored entries, their sender
\* snapshots included, are never changed or dropped.
C18_HistoryAppendOnly ==
    [][\A r \in DOMAIN rooms \cap DOMAIN rooms' :
         IsPrefix(rooms[r].history, rooms'[r].history)]_vars

\* a room holds two entries whose sender has since changed its identity and
\* its name
C18_Witness ==
    \E r \in DOMAIN rooms : \E c \in Conn :
        /\ Len(rooms[r].history) = 2
        /\ rooms[r].history[1].sender.id = TempClientId(c)
        /\ rooms[r].history[1].sender.name = <<"anon">>
        /\ client[c].id = <<"a">>
        /\ client[c].name = <<"A">>

\* ----------------------------------------------------------------- C17
\* one client fills the default room, every client joins it
ReplayPost(c) ==
    /\ Author(c)
    /\ Receives(c)
    /\ InRoom(c) => Len(rooms[client[c].currentRoom].history) < MaxReplay
    /\ \E content \in ContentInputs :
         Installs(sendMessage(Quiet(World), c, MessageData(Undefined, content),
                              MessageUuid(uuidMessages + 1)))
    /\ uuidMessages' = IF InRoom(c) THEN uuidMessages + 1 ELSE uuidMessages
    /\ UNCHANGED uuidRooms

NextReplay ==
    \E c \in Conn :
        \/ Connection(c)
        \/ OnJoinDefault(c)
        \/ ReplayPost(c)

SpecReplay == Init /\ [][NextReplay]_vars

Min(a, b) == IF a <= b THEN a ELSE b

\* C17: the room-joined reply to a join carries exactly the last min(50, n)
\* entries of the room's n-entry history, in arrival order, and the join
\* leaves the stored history unchanged.
C17_ReplayLastFifty ==
    [][\A c \in Conn : \A i \in DOMAIN sent'[c] :
         (sent'[c][i].type = "room-joined" /\ sent'[c][i].roomId \in DOMAIN rooms) =>
            LET h == rooms[sent'[c][i].roomId].history
                n == Len(h)
                k == Min(50, n)
            IN  /\ Len(sent'[c][i].history) = k
                /\ \A x \in 1 .. k : sent'[c][i].history[x] = h[n - k + x]
                /\ rooms'[sent'[c][i].roomId].history = h]_vars

\* a connection has just joined a room of more than 50 entries and been sent 50
C17_Witness ==
    \E c \in Conn : \E i \in DOMAIN sent[c] :
        /\ sent[c][i].type = "room-joined"
        /\ Len(sent[c][i].history) = 50
        /\ Len(rooms[sent[c][i].roomId].history) > 50

====
